---- MODULE Spec2Model ----
(***************************************************************************)
(* vuegraf: the windowed polling loop of src/src/vuegraf.py (main), its    *)
(* data-quality check (check_failed_pull) and its run statistics (Stat).   *)
(*                                                                         *)
(* Aligned datetimes (microsecond = 0) are integers, in seconds.  A raw    *)
(* datetime (utcnow(), a timestamp read back from the database) is a       *)
(* record [sec, usec]; the alignment operators drop the usec field.        *)
(***************************************************************************)
EXTENDS Integers, Sequences, FiniteSets, TLC

\* ------------------------------------------------------------ constants
INTERVAL_SECS == 60
FAILURE_SECS == 20
SUCCESS_THRESHOLD == 5
SUCCESS_THRESHOLD2 == 10
LAG_SECS == 20
\* "if S.failed_run > 3"
RETRY_LIMIT == 3
\* "channel_min = 65536  # some large number"
CHANNEL_MIN_INIT == 65536
\* datetime.timedelta keeps days apart: 0 <= timedelta.seconds < 86400
DAY_SECS == 86400

\* the --lag and --interval options, at their defaults
lag == LAG_SECS
interval == INTERVAL_SECS

\* --------------------------------------------------------------- bounds
\* poll cycles the model follows: an iteration of "while running" is entered
\* while the iterations so far made fewer cycles than this
MaxCycles == 5
\* length of config["accounts"]
MaxAccounts == 2
\* channels returned by get_recent_usage()
MaxChannels == 2

\* sub-second parts a raw datetime may carry
Micros == {0, 985109}
\* seconds a poll cycle itself takes (between two reads of utcnow())
PullSecs == {1}
\* what the wall clock may do during a sleep, beyond the sleep itself: the host
\* suspended for a day, the clock stepped back by two minutes
ClockSkews == {DAY_SECS, 0 - 2 * INTERVAL_SECS}
\* how many sleeps of a run the clock is disturbed in
MaxSkews == 1
\* seconds a channel may miss of the window: none (one reading per second),
\* eleven, a whole day
MissChoices == {0, 11, DAY_SECS}
\* where the last point stored in the database lies, relative to the first
\* window end: at the naive start, inside the window, after the end
LastPointOffsets == {0 - INTERVAL_SECS, 0 - 3, 5}

VARIABLES
    running,        \* global "running"
    pauseEvent,     \* global "pauseEvent": is the Event set
    pc,             \* main's position: "while", "for", "sleep", "exit", "crash"
    clock,          \* the wall clock (utcnow), whole seconds
    skews,          \* how many sleeps the clock was disturbed in
    config,         \* [accounts |-> number of configured accounts]
    account,        \* per account: [vue: logged in, end: account['end']]
    i,              \* index of the for loop over config["accounts"]
    S,              \* Stat: [failed_run, run_count]
    start,          \* main's local "start"
    sleep_seconds,  \* main's local "sleep_seconds" of the last sleep
    iter,           \* observation: what the cycles of this iteration did
    cyc,            \* observation: per account, its last poll cycle in short
    last,           \* observation: the last poll cycle run, in full
    loop            \* the loop over the channels of one pull, channel by channel

mainVars == <<running, pauseEvent, pc, clock, skews, config, account, i, S, start,
              sleep_seconds, iter, cyc, last>>

vars == <<running, pauseEvent, pc, clock, skews, config, account, i, S, start,
          sleep_seconds, iter, cyc, last, loop>>

\* datetime.utcnow(): the clock's second and some sub-second part, which the
\* alignment below drops
utcnow == [sec |-> clock, usec |-> 985109]

Min(a, b) == IF a < b THEN a ELSE b
Max(a, b) == IF a > b THEN a ELSE b

\* ------------------------------------------------------- pure functions

\* datetime.replace(microsecond=0)
ReplaceMicrosecond0(dt) == dt.sec

\* utcnow() - timedelta(seconds=lag), aligned to the second
EndingTime(now) == ReplaceMicrosecond0([sec |-> now.sec - lag, usec |-> now.usec])

\* a slip in the parsing: the stored timestamp is rounded to the nearest second
ParseTimeStrRound(ts) == IF ts.usec >= 500000 THEN ts.sec + 1 ELSE ts.sec

\* strptime(time[:19] + 'Z'): the fractional part of the stored timestamp is chopped
ParseTimeStr(ts) == ts.sec

\* first cycle: 60s prior to the end, or the last stored timestamp if later
InitialStart(end, result) ==
    LET naive == end - interval
    IN IF Len(result) > 0
       THEN LET tmpStartingTime == ParseTimeStr(result[1])
            IN IF tmpStartingTime > naive THEN tmpStartingTime ELSE naive
       ELSE naive

\* a slip in the window rule: the start advances whatever the failure counter
NextStartAlwaysEnd(failed_run, oldStart, oldEnd) == oldEnd

\* later cycles: the end of the account's last window when the failure counter
\* is zero, else the value the local "start" still holds
NextStart(failed_run, oldStart, oldEnd) ==
    IF failed_run = 0 THEN oldEnd ELSE oldStart

\* timedelta.seconds
TimedeltaSeconds(d) == d % DAY_SECS

check_failed_pull(min_points, max_points, pull_duration) ==
    LET missing_points == TimedeltaSeconds(pull_duration) - max_points
        delta_points == max_points - min_points
    IN IF missing_points > SUCCESS_THRESHOLD THEN TRUE
       ELSE IF delta_points > SUCCESS_THRESHOLD2 THEN TRUE
       ELSE FALSE

\* the loop over the channels: chans[k] is "index", the number of non-null
\* readings of channel k, each of which appended one data point
RECURSIVE ChannelLoop(_, _)
ChannelLoop(chans, acc) ==
    IF chans = <<>> THEN acc
    ELSE LET index == Head(chans)
             nxt == [points |-> acc.points + index,
                     data_channels |-> IF index # 0 THEN acc.data_channels + 1
                                       ELSE acc.data_channels,
                     channel_min |-> IF index # 0 THEN Min(acc.channel_min, index)
                                     ELSE acc.channel_min,
                     channel_max |-> IF index # 0 THEN Max(acc.channel_max, index)
                                     ELSE acc.channel_max]
         IN ChannelLoop(Tail(chans), nxt)

Collect(chans) ==
    ChannelLoop(chans, [points |-> 0, data_channels |-> 0,
                        channel_min |-> CHANNEL_MIN_INIT, channel_max |-> 0])

\* a slip in the retry threshold: the recovery is aborted one rejection early
AbortRetryEarly(failed_run) == failed_run >= RETRY_LIMIT

\* "if S.failed_run > 3": abort the recovery and write what was collected
AbortRetry(failed_run) == failed_run > RETRY_LIMIT

\* a slip in the except branch: the counter is incremented
ExceptFailedRunIncrement(failed_run) == failed_run + 1

\* the except branch: "S.failed_run = 1"
ExceptFailedRun(failed_run) == 1

\* influx.write_points(usageDataPoints): all the points, or an exception
WritePoints(points, sinkOk) == IF sinkOk THEN points ELSE 0

\* the body of the try statement, for a window [st, en): raised says that the
\* sample source raised, got is what the loop over the channels collected,
\* sinkOk says that write_points returned
TryBody(failed_run, st, en, raised, got, sinkOk) ==
    LET run_duration == en - st
        failed == check_failed_pull(got.channel_min, got.channel_max, run_duration)
        bumped == IF failed THEN failed_run + 1 ELSE failed_run
        base == [failed |-> FALSE, streak |-> failed_run, channel_min |-> got.channel_min,
                 channel_max |-> got.channel_max, collected |-> got.points,
                 submitted |-> 0, written |-> 0, outcome |-> "hard",
                 failed_run |-> failed_run,
                 pull_seconds |-> TimedeltaSeconds(run_duration)]
    IN IF raised
       THEN [base EXCEPT !.failed_run = ExceptFailedRun(failed_run), !.collected = 0,
                         !.channel_min = CHANNEL_MIN_INIT, !.channel_max = 0]
       ELSE IF failed /\ ~AbortRetry(bumped)
       THEN [base EXCEPT !.failed = TRUE, !.streak = bumped, !.failed_run = bumped,
                         !.outcome = "rejected"]
       ELSE IF sinkOk
       THEN [base EXCEPT !.failed = failed, !.streak = bumped, !.failed_run = 0,
                         !.submitted = got.points,
                         !.written = WritePoints(got.points, sinkOk),
                         !.outcome = IF failed THEN "forced" ELSE "accepted"]
       ELSE [base EXCEPT !.failed = failed, !.streak = bumped,
                         !.failed_run = ExceptFailedRun(0),
                         !.submitted = got.points,
                         !.written = WritePoints(got.points, sinkOk),
                         !.outcome = "writefail"]

\* "sleep_seconds = FAILURE_SECS if S.failed_run else interval"
SleepSeconds(failed_run) == IF failed_run # 0 THEN FAILURE_SECS ELSE interval

\* --------------------------------------------------------------- inputs

\* what a channel may return for a window: a reading for every second but the
\* last m, m in MissChoices, or no reading at all (AllNone)
AllNone == 0 - 1
ChannelShapes == MissChoices \cup {AllNone}

\* "index" after the loop over the channel's usage: its non-null readings
Index(dur, m) == IF m = AllNone \/ dur - m <= 0 THEN 0 ELSE dur - m

\* the non-empty lists of at most n shapes, up to the order of the channels
\* (the loop over the channels computes a sum, a minimum and a maximum)
RECURSIVE ShapeLists(_)
ShapeLists(n) ==
    IF n = 0 THEN {<<>>}
    ELSE LET shorter == ShapeLists(n - 1)
         IN shorter \cup {Append(s, x) : s \in {t \in shorter : Len(t) = n - 1},
                                         x \in ChannelShapes}

IsSorted(s) == \A k \in 1 .. Len(s) - 1 : s[k] <= s[k + 1]

\* the channel lists get_recent_usage() may return, by shape
PullShapes == {s \in ShapeLists(MaxChannels) : s # <<>> /\ IsSorted(s)}

ChannelPulls(dur) == {[k \in 1 .. Len(sh) |-> Index(dur, sh[k])] : sh \in PullShapes}

\* what the "select last(usage)" query returns: nothing, or one point
QueryResults(end) ==
    {<<>>} \cup {<<[sec |-> end + off, usec |-> us]>> : off \in LastPointOffsets, us \in Micros}

\* ---------------------------------------------------------------- state

\* no committed window yet
NoCommit == 0 - 1

NoCycle ==
    [ran |-> FALSE, start |-> 0, end |-> 0, outcome |-> "none", nrej |-> 0,
     own_failed_run |-> 0, held |-> 0, fails |-> 0, commit_end |-> NoCommit]

NoLast ==
    [account |-> 0, start |-> 0, end |-> 0, failed |-> FALSE, outcome |-> "none",
     channel_min |-> 0, channel_max |-> 0, collected |-> 0, submitted |-> 0,
     written |-> 0, pre |-> 0, streak |-> 0, nrej |-> 0,
     ownStart |-> 0, ownPre |-> 0, ownWrites |-> FALSE, seed |-> <<>>,
     pull_seconds |-> 0, prev |-> NoCycle]

\* the channel loop is not followed channel by channel
NoLoop == [at |-> "idle"]

InitMain ==
    /\ running = TRUE
    /\ pauseEvent = FALSE
    /\ pc = "while"
    /\ clock = 100000
    /\ skews = 0
    /\ config \in {[accounts |-> n] : n \in 1 .. MaxAccounts}
    /\ account = [a \in 1 .. config.accounts |-> [vue |-> FALSE, end |-> 0]]
    /\ i = 1
    /\ S = [failed_run |-> 0, run_count |-> 0]
    /\ start = 0
    /\ sleep_seconds = 0
    /\ iter = [failed |-> FALSE, cycles |-> 0]
    /\ cyc = [a \in 1 .. config.accounts |-> NoCycle]
    /\ last = NoLast

Init ==
    /\ InitMain
    /\ loop = NoLoop

\* -------------------------------------------------------------- actions

\* what the sample source and the sink do in one cycle over dur seconds: the
\* source raises, or the channels are collected and the write returns or raises
PullInputs(dur) ==
    {[raised |-> TRUE, got |-> Collect(<<>>), sinkOk |-> TRUE]}
    \cup {[raised |-> FALSE, got |-> g, sinkOk |-> ok] :
             g \in {Collect(c) : c \in ChannelPulls(dur)}, ok \in BOOLEAN}

\* consecutive quality-rejected cycles of account a, counted from a cycle that
\* began with the failure counter at 0, up to the one that aborts the retry
RejectRun(a, r) ==
    IF ~r.failed THEN 0
    ELSE IF cyc[a].nrej \in 1 .. RETRY_LIMIT THEN cyc[a].nrej + 1
    ELSE IF S.failed_run = 0 THEN 1 ELSE 0

\* consecutive cycles of account a, this one included, that ended rejected or
\* in the except branch and pulled from the same window start (capped)
HeldRun(a, st, r) ==
    IF r.outcome \notin {"rejected", "hard", "writefail"} THEN 0
    ELSE IF cyc[a].held > 0 /\ cyc[a].start = st
    THEN Min(cyc[a].held + 1, RETRY_LIMIT + 2)
    ELSE 1

\* consecutive cycles of account a, this one included, that ended rejected or
\* in the except branch, whatever their window start (capped)
FailRun(a, r) ==
    IF r.outcome \notin {"rejected", "hard", "writefail"} THEN 0
    ELSE Min(cyc[a].fails + 1, RETRY_LIMIT + 2)

\* the end of the last window of account a whose points the sink stored
CommitEnd(a, en, r) ==
    IF r.outcome \in {"accepted", "forced"} THEN en ELSE cyc[a].commit_end

\* a slip in the error handling: the exception of the sample source is raised
\* again and leaves the loop
NextPcReraise(outcome, idx, n) ==
    IF outcome = "hard" THEN "crash" ELSE IF idx < n THEN "for" ELSE "sleep"

\* the except clause swallows the exception and a rejected cycle "continue"s:
\* the for statement goes on with the next account, then to the sleep
NextPc(outcome, idx, n) == IF idx < n THEN "for" ELSE "sleep"

\* the rest of the for body once the window [st, en) is set: the try
\* statement, then on to the next account or to the sleep.  For the record,
\* the same code is replayed on a failure counter that only account a's own
\* cycles update (cyc[a].own_failed_run): ownSt is the start it gives, ownR
\* the result of its try statement
PollCycle(a, st, en, ownSt, seed, inp, dt) ==
    LET r == TryBody(S.failed_run, st, en, inp.raised, inp.got, inp.sinkOk)
        ownR == TryBody(cyc[a].own_failed_run, st, en, inp.raised, inp.got, inp.sinkOk)
    IN /\ S' = [S EXCEPT !.failed_run = r.failed_run]
       /\ start' = st
       /\ account' = [account EXCEPT ![a] = [vue |-> TRUE, end |-> en]]
       /\ clock' = clock + dt
       /\ cyc' = [cyc EXCEPT ![a] = [ran |-> TRUE, start |-> st, end |-> en,
                                     outcome |-> r.outcome, nrej |-> RejectRun(a, r),
                                     own_failed_run |-> ownR.failed_run,
                                     held |-> HeldRun(a, st, r),
                                     fails |-> FailRun(a, r),
                                     commit_end |-> CommitEnd(a, en, r)]]
       /\ last' = [account |-> a, start |-> st, end |-> en, failed |-> r.failed,
                   outcome |-> r.outcome, channel_min |-> r.channel_min,
                   channel_max |-> r.channel_max, collected |-> r.collected,
                   submitted |-> r.submitted, written |-> r.written,
                   pre |-> S.failed_run, streak |-> r.streak,
                   nrej |-> RejectRun(a, r),
                   ownStart |-> ownSt, ownPre |-> cyc[a].own_failed_run,
                   ownWrites |-> ownR.outcome \in {"accepted", "forced", "writefail"},
                   seed |-> seed, pull_seconds |-> r.pull_seconds, prev |-> cyc[a]]
       /\ iter' = [failed |-> iter.failed \/ r.outcome # "accepted",
                   cycles |-> iter.cycles + 1]
       /\ i' = IF i < config.accounts THEN i + 1 ELSE i
       /\ pc' = NextPc(r.outcome, i, config.accounts)
       /\ UNCHANGED <<running, pauseEvent, skews, config, sleep_seconds, loop>>

\* "while running:" entered: S.new_run()
WhileEnter ==
    /\ pc = "while"
    /\ running
    /\ S.run_count * config.accounts < MaxCycles
    /\ S' = [S EXCEPT !.run_count = @ + 1]
    /\ i' = 1
    /\ pc' = "for"
    /\ iter' = [failed |-> FALSE, cycles |-> 0]
    /\ UNCHANGED <<running, pauseEvent, clock, skews, config, account, start,
                   sleep_seconds, cyc, last, loop>>

\* "while running:" left: S.exit_print()
WhileExit ==
    /\ pc = "while"
    /\ ~running
    /\ pc' = "exit"
    /\ UNCHANGED <<running, pauseEvent, clock, skews, config, account, i, S, start,
                   sleep_seconds, iter, cyc, last, loop>>

\* an account's first cycle ('vue' not in account): log in, seed the window
FirstCycle ==
    /\ pc = "for"
    /\ ~account[i].vue
    /\ LET tmpEndingTime == EndingTime(utcnow)
         IN \E result \in QueryResults(tmpEndingTime) :
              LET st == InitialStart(tmpEndingTime, result)
              IN \E inp \in PullInputs(tmpEndingTime - st), dt \in PullSecs :
                   PollCycle(i, st, tmpEndingTime, st, result, inp, dt)

\* login(), populateDevices() or influx.query() raise: they are outside the try
StartupCrash ==
    /\ pc = "for"
    /\ ~account[i].vue
    /\ pc' = "crash"
    /\ UNCHANGED <<running, pauseEvent, clock, skews, config, account, i, S, start,
                   sleep_seconds, iter, cyc, last, loop>>

\* a later cycle: the window start from the failure counter
NextCycle ==
    /\ pc = "for"
    /\ account[i].vue
    /\ LET tmpEndingTime == EndingTime(utcnow)
             st == NextStart(S.failed_run, start, account[i].end)
             ownSt == NextStart(cyc[i].own_failed_run, cyc[i].start, cyc[i].end)
         IN /\ S.failed_run = 0 => tmpEndingTime > st
            /\ \E inp \in PullInputs(tmpEndingTime - st), dt \in PullSecs :
                 PollCycle(i, st, tmpEndingTime, ownSt, <<>>, inp, dt)

\* "assert(tmpEndingTime > start)" fails: the AssertionError is outside the try
AssertCrash ==
    /\ pc = "for"
    /\ account[i].vue
    /\ S.failed_run = 0
    /\ ~(EndingTime(utcnow) > account[i].end)
    /\ pc' = "crash"
    /\ UNCHANGED <<running, pauseEvent, clock, skews, config, account, i, S, start,
                   sleep_seconds, iter, cyc, last, loop>>

\* "pauseEvent.wait(sleep_seconds)": returns at once when the event is set,
\* after sleep_seconds otherwise
Sleep ==
    /\ pc = "sleep"
    /\ sleep_seconds' = SleepSeconds(S.failed_run)
    /\ \/ pauseEvent /\ clock' = clock /\ skews' = skews
       \/ ~pauseEvent /\ clock' = clock + sleep_seconds' /\ skews' = skews
       \/ /\ ~pauseEvent
          /\ skews < MaxSkews
          /\ skews' = skews + 1
          /\ \E k \in ClockSkews : clock' = clock + sleep_seconds' + k
    /\ pc' = "while"
    /\ UNCHANGED <<running, pauseEvent, config, account, i, S, start, iter, cyc,
                   last, loop>>

\* a slip in the handler: the flag is cleared but the event is not set
handleExitNoWake ==
    /\ pc \notin {"exit", "crash"}
    /\ running' = FALSE
    /\ UNCHANGED <<pauseEvent, pc, clock, skews, config, account, i, S, start,
                   sleep_seconds, iter, cyc, last, loop>>

\* SIGINT or SIGHUP, at any point of the run
handleExit ==
    /\ pc \notin {"exit", "crash"}
    /\ running' = FALSE
    /\ pauseEvent' = TRUE
    /\ UNCHANGED <<pc, clock, skews, config, account, i, S, start, sleep_seconds,
                   iter, cyc, last, loop>>

Next ==
    \/ WhileEnter
    \/ WhileExit
    \/ FirstCycle
    \/ StartupCrash
    \/ NextCycle
    \/ AssertCrash
    \/ Sleep
    \/ handleExit

Spec == Init /\ [][Next]_vars

\* the steps of the main thread
Main ==
    \/ WhileEnter
    \/ WhileExit
    \/ FirstCycle
    \/ StartupCrash
    \/ NextCycle
    \/ AssertCrash
    \/ Sleep

\* the main thread keeps running: its calls return and its sleep ends
FairSpec == Spec /\ WF_vars(Main)

\* ------------------------------------------------ the loop over the channels
\* The for statement over the channels of one pull (lines 315-343), one
\* channel per step: the name lookup with its device discovery, the loop over
\* the channel's readings, the minimum and maximum.

\* a reading that is None; a wattage is not negative
NoneWatts == 0 - 1

\* device ids the channels of a pull may carry
Gids == {1, 2}
\* account['deviceIdMap'] when the pull begins
MapChoices == {{1}}
\* the devices get_devices() returns during the pull
CloudChoices == {{1}, {1, 2}}
\* what get_usage_over_time() may return for a channel: nothing, only None,
\* all readings, a None between readings, a None before a reading
UsageLists ==
    {<<>>, <<NoneWatts, NoneWatts>>, <<7, 8, 9>>, <<7, NoneWatts, 9>>, <<NoneWatts, 7>>}

\* populateDevices(account): the maps are rebuilt from get_devices()
populateDevices(acct, cloud) ==
    [deviceIdMap |-> cloud, calls |-> acct.calls + 1]

\* lookupDeviceName: discovers the devices when the id is not in the map
lookupDeviceName(acct, device_gid, cloud) ==
    IF device_gid \notin acct.deviceIdMap THEN populateDevices(acct, cloud) ELSE acct

\* lookupChannelName: discovers the devices when the id is not in the map, then
\* calls lookupDeviceName
lookupChannelName(acct, device_gid, cloud) ==
    LET refreshed == IF device_gid \notin acct.deviceIdMap
                     THEN populateDevices(acct, cloud) ELSE acct
    IN lookupDeviceName(refreshed, device_gid, cloud)

\* a slip in the loop over the readings: the index counts the None readings too
RECURSIVE UsageLoopByPosition(_, _, _, _)
UsageLoopByPosition(usage, st, index, points) ==
    IF usage = <<>> THEN [index |-> index, points |-> points]
    ELSE LET watts == Head(usage)
         IN IF watts # NoneWatts
            THEN UsageLoopByPosition(Tail(usage), st, index + 1,
                                     Append(points, [time |-> st + index, usage |-> watts]))
            ELSE UsageLoopByPosition(Tail(usage), st, index + 1, points)

\* "for watts in usage": a reading that is not None appends a point at
\* start + index and increments index
RECURSIVE UsageLoop(_, _, _, _)
UsageLoop(usage, st, index, points) ==
    IF usage = <<>> THEN [index |-> index, points |-> points]
    ELSE LET watts == Head(usage)
         IN IF watts # NoneWatts
            THEN UsageLoop(Tail(usage), st, index + 1,
                           Append(points, [time |-> st + index, usage |-> watts]))
            ELSE UsageLoop(Tail(usage), st, index, points)

\* the channel lists of a pull: at most n channels, each with a device id and
\* its readings
RECURSIVE ChannelLists(_)
ChannelLists(n) ==
    IF n = 0 THEN {<<>>}
    ELSE LET shorter == ChannelLists(n - 1)
         IN shorter \cup {Append(s, [device_gid |-> g, usage |-> u]) :
                             s \in {x \in shorter : Len(x) = n - 1},
                             g \in Gids, u \in UsageLists}

\* the pull begins: the window start, the channels, the account's device map
LoopStarts ==
    {[at |-> "channels", start |-> EndingTime(utcnow) - interval, channels |-> cs,
      cloud |-> cl, acct |-> [deviceIdMap |-> m, calls |-> 0], k |-> 1,
      counts |-> Collect(<<>>), indexes |-> <<>>, usageDataPoints |-> <<>>] :
        cs \in ChannelLists(MaxChannels) \ {<<>>}, cl \in CloudChoices,
        m \in MapChoices}

LoopInit ==
    /\ InitMain
    /\ loop \in LoopStarts

\* one pass of "for chan in channels"
ChannelStep ==
    /\ loop.at = "channels"
    /\ loop.k <= Len(loop.channels)
    /\ LET chan == loop.channels[loop.k]
           acct == lookupChannelName(loop.acct, chan.device_gid, loop.cloud)
           got == UsageLoop(chan.usage, loop.start, 0, <<>>)
           tagged == [j \in 1 .. Len(got.points) |->
                        [chan |-> loop.k, time |-> got.points[j].time,
                         usage |-> got.points[j].usage]]
       IN loop' = [loop EXCEPT !.acct = acct,
                               !.k = @ + 1,
                               !.counts = ChannelLoop(<<got.index>>, @),
                               !.indexes = Append(@, got.index),
                               !.usageDataPoints = @ \o tagged]
    /\ UNCHANGED mainVars

\* the for statement is exhausted: on to check_failed_pull
ChannelsDone ==
    /\ loop.at = "channels"
    /\ loop.k > Len(loop.channels)
    /\ loop' = [loop EXCEPT !.at = "check"]
    /\ UNCHANGED mainVars

LoopNext ==
    \/ ChannelStep
    \/ ChannelsDone

LoopSpec == LoopInit /\ [][LoopNext]_vars

\* --------------------------------------------------------------- claims
\* "last" is the most recent poll cycle and last.prev the cycle the same
\* account ran before it; every cycle is the most recent one in some state.

\* a cycle was run and the sample source did not raise in it
Pulled == last.outcome \notin {"none", "hard"}

\* C1: for every source, after a cycle of it that ended accepted (quality
\* passed, write succeeded) the source's next cycle starts exactly at that
\* cycle's end, whatever the other sources did in between.
C1_StartIsPriorEndAfterAccept ==
    last.prev.outcome = "accepted" => last.start = last.prev.end

\* C2: for every source, after a cycle of it that was quality-rejected with the
\* failure streak not above the threshold, the source's next cycle keeps the
\* rejected cycle's window start (only its end is computed anew).
C2_StartHeldAfterReject ==
    last.prev.outcome = "rejected" => last.start = last.prev.start

C4_FourthRejectCommits ==
    /\ last.nrej \in 1 .. RETRY_LIMIT =>
          /\ last.written = 0
          /\ last.nrej > 1 => last.start = last.prev.start
    /\ (last.nrej = RETRY_LIMIT + 1 /\ last.outcome # "writefail") =>
          /\ last.start = last.prev.start
          /\ last.written = last.collected
          /\ S.failed_run = 0
    /\ (last.prev.nrej = RETRY_LIMIT + 1 /\ last.prev.outcome = "forced") =>
          last.start = last.prev.end

\* C5: for minCount <= maxCount and every window duration, the evaluator
\* rejects exactly when (duration - maxCount) > 5 or (maxCount - minCount) > 10.
C5_EvaluatorRule ==
    (Pulled /\ last.channel_min <= last.channel_max) =>
        (last.failed <=>
            \/ (last.end - last.start) - last.channel_max > SUCCESS_THRESHOLD
            \/ last.channel_max - last.channel_min > SUCCESS_THRESHOLD2)

\* C6: a pull in which no channel returned a non-null sample (maxCount = 0) is
\* rejected, whatever the window duration.
C6_EmptyPullRejected ==
    (Pulled /\ last.channel_max = 0) => last.failed

\* C7: for every source, a cycle in which the sample source raised writes no
\* points, and the source's next cycle keeps that cycle's window start.
C7_StartHeldAfterHardFailure ==
    /\ last.outcome = "hard" => last.written = 0
    /\ last.prev.outcome = "hard" => last.start = last.prev.start

\* C8: after a cycle whose sink write failed the source's next cycle keeps the
\* window start, on the accepted path and on the abort-retry path alike: it
\* does not advance to the end of the cycle whose write failed.
C8_StartHeldAfterWriteFailure ==
    last.prev.outcome = "writefail" =>
        /\ last.start = last.prev.start
        /\ last.prev.end # last.prev.start => last.start # last.prev.end

\* C9: after the sources of an iteration are processed the loop sleeps the
\* failure interval if any of them hard-failed or was quality-rejected in the
\* iteration (an aborted retry included), and the normal interval otherwise.
C9_SleepAfterFailure ==
    (pc = "while" /\ S.run_count > 0) =>
        sleep_seconds = IF iter.failed THEN FAILURE_SECS ELSE interval

\* C10: the window start and the failure streak a source's cycle uses, and its
\* decision to write, are those its own earlier cycles give: the same as when
\* the window rule runs on a state that only this source's cycles update.
C10_PerSourceState ==
    last.outcome # "none" =>
        /\ last.start = last.ownStart
        /\ last.pre = last.ownPre
        /\ (last.outcome \in {"accepted", "forced", "writefail"}) = last.ownWrites

\* the record of the most recent cycle's account
lastCyc == IF last.account = 0 THEN NoCycle ELSE cyc[last.account]

\* C11: an error of the sample source or the sink in a cycle does not end the
\* loop: whatever the outcome of a cycle (hard failure, write failure, quality
\* reject), the for statement goes on with the next account or, after the last
\* account, to the sleep; when the iteration reaches the sleep every
\* configured account has had exactly one cycle in it.
C11_ErrorsDoNotStopLoop ==
    /\ [](pc = "for" => iter.cycles = i - 1)
    /\ [](pc = "sleep" => iter.cycles = config.accounts)
    /\ [][(pc = "for" /\ clock' # clock) =>
             /\ iter'.cycles = iter.cycles + 1
             /\ pc' = IF i < config.accounts THEN "for" ELSE "sleep"
             /\ i < config.accounts => i' = i + 1]_vars

\* C11 witness: in the third iteration the second account ran its cycle right
\* after the first account's hard failure, its own cycle before having failed
\* on the write
C11_Witness ==
    /\ config.accounts = 2
    /\ S.run_count = 3
    /\ last.account = 2
    /\ last.prev.outcome = "writefail"
    /\ cyc[1].outcome = "hard"
    /\ pc = "sleep"

\* C12: on an account's first cycle the window start is the last stored
\* timestamp, cut to whole seconds, when that is strictly after end - interval,
\* and end - interval otherwise (nothing stored, or a point not after it).
C12_FirstWindowStart ==
    (last.outcome # "none" /\ ~last.prev.ran) =>
        IF Len(last.seed) > 0 /\ last.seed[1].sec > last.end - interval
        THEN last.start = last.seed[1].sec
        ELSE last.start = last.end - interval

\* C12 witness: a first cycle seeded from a stored timestamp that carries
\* microseconds and lies inside the naive window
C12_Witness ==
    /\ last.outcome # "none"
    /\ ~last.prev.ran
    /\ Len(last.seed) > 0
    /\ last.seed[1].usec > 0
    /\ last.seed[1].sec > last.end - interval
    /\ last.seed[1].sec < last.end
    /\ last.start = last.seed[1].sec

\* C13: every window samples are requested for has end > start strictly (a
\* computed end that does not exceed the start raises instead of being pulled).
C13_WindowEndAfterStart ==
    last.outcome # "none" => last.end > last.start

C15_HoldBounded ==
    last.prev.held = RETRY_LIMIT + 1 => last.start # last.prev.start

\* C16: after a cycle of a source the failure streak is the number of
\* consecutive cycles of that source, up to this one, that ended in a quality
\* reject or a hard failure (a failure at streak k leaves k + 1), and 0 after
\* an accept.
C16_StreakCountsFailures ==
    /\ lastCyc.outcome \in {"rejected", "hard", "writefail"} =>
          S.failed_run = lastCyc.fails
    /\ lastCyc.outcome = "accepted" => S.failed_run = 0

\* C19: with one configured account, a window whose points were written
\* starts where the window written before it ended.
C19_CommittedWindowsContiguous ==
    (config.accounts = 1 /\ last.outcome \in {"accepted", "forced"}
       /\ last.prev.commit_end # NoCommit) =>
        last.start = last.prev.commit_end

\* C19 witness: a written window that follows a rejected cycle, with a window
\* written earlier
C19_Witness ==
    /\ config.accounts = 1
    /\ last.outcome = "accepted"
    /\ last.prev.outcome = "rejected"
    /\ last.prev.commit_end # NoCommit
    /\ last.start = last.prev.commit_end
    /\ last.written > 0

NonNull(usage) == SelectSeq(usage, LAMBDA w : w # NoneWatts)

\* the points the loop appended for channel c, in order
PointsOf(c) == SelectSeq(loop.usageDataPoints, LAMBDA p : p.chan = c)

\* the channels handled so far, and those of them with a reading
Handled == IF loop.at = "idle" THEN {} ELSE 1 .. (loop.k - 1)
WithData == {c \in Handled : Len(NonNull(loop.channels[c].usage)) > 0}

\* C17: in one poll cycle populateDevices is called at most once, however many
\* channels carry a device id that stays unknown.
C17_OneRefreshPerCycle ==
    loop.at # "idle" => loop.acct.calls <= 1

\* C18: for each channel the points are one per reading that is not None, the
\* j-th of them carrying the j-th such reading and the timestamp
\* start + (j - 1); the count kept for the channel is that number; the minimum
\* and maximum are taken over the channels whose count is not 0.
C18_PointsPerChannel ==
    loop.at # "idle" =>
        /\ \A c \in Handled :
              LET readings == NonNull(loop.channels[c].usage)
                  pts == PointsOf(c)
              IN /\ Len(pts) = Len(readings)
                 /\ loop.indexes[c] = Len(readings)
                 /\ \A j \in 1 .. Len(pts) :
                       /\ pts[j].time = loop.start + (j - 1)
                       /\ pts[j].usage = readings[j]
        /\ loop.counts.points = Len(loop.usageDataPoints)
        /\ loop.counts.data_channels = Cardinality(WithData)
        /\ \A c \in WithData :
              /\ loop.counts.channel_min <= loop.indexes[c]
              /\ loop.counts.channel_max >= loop.indexes[c]
        /\ WithData # {} =>
              /\ \E c \in WithData : loop.counts.channel_min = loop.indexes[c]
              /\ \E c \in WithData : loop.counts.channel_max = loop.indexes[c]
        /\ WithData = {} =>
              /\ loop.counts.channel_min = CHANNEL_MIN_INIT
              /\ loop.counts.channel_max = 0

\* C18 witness: the loop is through two channels, one with a None between two
\* readings and one with only None
C18_Witness ==
    /\ loop.at = "check"
    /\ Len(loop.channels) = 2
    /\ loop.channels[1].usage = <<7, NoneWatts, 9>>
    /\ loop.channels[2].usage = <<NoneWatts, NoneWatts>>
    /\ Len(loop.usageDataPoints) = 2
    /\ loop.usageDataPoints[2].time = loop.start + 1
    /\ loop.counts.data_channels = 1

\* C21: the duration check_failed_pull compares the maximum count against is
\* the whole end - start in seconds, for every window with end > start, a
\* window of a day or more (the start held through an outage) included: the
\* missing-points check does not wrap at the day.
C21_DurationNotWrapped ==
    (Pulled /\ last.end > last.start) =>
        last.pull_seconds = last.end - last.start

====
